---------------------------- MODULE Spec2Model ----------------------------
(***************************************************************************)
(* A model of redcon (src/redcon.go): the RESP / inline command reader,    *)
(* the reply writer, the per-connection engine loop (handle) and the       *)
(* server's accept loop with its registry, lock and shutdown.              *)
(*                                                                         *)
(* Bytes are one-character strings; a []byte or a Go string is a sequence  *)
(* of them.  Go indices are 0-based: At, Slice and From translate them.    *)
(***************************************************************************)
EXTENDS Integers, Sequences, FiniteSets, TLC

(***************************************************************************)
(* Bytes and slices                                                        *)
(***************************************************************************)
CR == "\r"

LF == "\n"

Digits == {"0", "1", "2", "3", "4", "5", "6", "7", "8", "9"}

\* int(c - '0') for a digit c
DigitVal(c) ==
  CASE c = "0" -> 0 [] c = "1" -> 1 [] c = "2" -> 2 [] c = "3" -> 3
    [] c = "4" -> 4 [] c = "5" -> 5 [] c = "6" -> 6 [] c = "7" -> 7
    [] c = "8" -> 8 [] c = "9" -> 9

\* the digit byte of d in 0..9
DigitChar(d) ==
  CASE d = 0 -> "0" [] d = 1 -> "1" [] d = 2 -> "2" [] d = 3 -> "3"
    [] d = 4 -> "4" [] d = 5 -> "5" [] d = 6 -> "6" [] d = 7 -> "7"
    [] d = 8 -> "8" [] d = 9 -> "9"

\* b[i]
At(b, i) == b[i + 1]

\* b[lo:hi]
Slice(b, lo, hi) == SubSeq(b, lo + 1, hi)

\* b[lo:]
From(b, lo) == SubSeq(b, lo + 1, Len(b))

\* the values of a sequence
Range(f) == {f[i] : i \in DOMAIN f}

Min(a, b) == IF a <= b THEN a ELSE b

RECURSIVE IndexFrom(_, _, _)
\* the first index i >= from with b[i] = c, or len(b) when there is none:
\* where a loop "for ; i < len(b); i++ { if b[i] == c {...} }" first enters its body
IndexFrom(b, c, from) ==
  IF from >= Len(b) THEN Len(b)
  ELSE IF At(b, from) = c THEN from
  ELSE IndexFrom(b, c, from + 1)

RECURSIVE Concat(_)
\* the concatenation of a sequence of byte strings
Concat(ss) == IF ss = <<>> THEN <<>> ELSE Head(ss) \o Concat(Tail(ss))

(***************************************************************************)
(* Errors.  An error value is a record; msg is used by protocol errors.    *)
(***************************************************************************)
msgUnbalancedQuotes == <<"u", "n", "b", "a", "l", "a", "n", "c", "e", "d", " ", "q", "u", "o", "t", "e", "s", " ", "i", "n", " ", "r", "e", "q", "u", "e", "s", "t">>

msgInvalidBulkLength == <<"i", "n", "v", "a", "l", "i", "d", " ", "b", "u", "l", "k", " ", "l", "e", "n", "g", "t", "h">>

msgInvalidMultiBulkLength == <<"i", "n", "v", "a", "l", "i", "d", " ", "m", "u", "l", "t", "i", "b", "u", "l", "k", " ", "l", "e", "n", "g", "t", "h">>

\* "expected '$', got '" + string(c) + "'"
msgExpected(c) == <<"e", "x", "p", "e", "c", "t", "e", "d", " ", "'", "$", "'", ",", " ", "g", "o", "t", " ", "'">> \o <<c, "'">>

Err(kind) == [kind |-> kind, msg |-> <<>>]

nil == Err("nil")

errProtocol(msg) == [kind |-> "protocol", msg |-> msg]

errUnbalancedQuotes == errProtocol(msgUnbalancedQuotes)

errInvalidBulkLength == errProtocol(msgInvalidBulkLength)

errInvalidMultiBulkLength == errProtocol(msgInvalidMultiBulkLength)

errHijacked == Err("hijacked")

errClosed == Err("closed")

\* io.EOF and io.ErrUnexpectedEOF
EOF == Err("EOF")

ErrUnexpectedEOF == Err("unexpected EOF")

\* what the net package returns for an operation on a stream closed on this side
errNetClosed == Err("use of closed network connection")

\* any other failure of a stream read or write (reset by peer, broken pipe)
errIO == Err("io")

\* a mutant of ErrorString: the "Protocol error: " prefix is left out
ErrorString_NoPrefix(e) == e.msg

\* (*errProtocol).Error()
ErrorString(e) == <<"P", "r", "o", "t", "o", "c", "o", "l", " ", "e", "r", "r", "o", "r", ":", " ">> \o e.msg

(***************************************************************************)
(* parseInt                                                                *)
(***************************************************************************)
RECURSIVE parseIntLoop(_, _, _)
parseIntLoop(b, i, n) ==
  IF i >= Len(b) THEN [ok |-> TRUE, n |-> n]
  ELSE IF At(b, i) \notin Digits THEN [ok |-> FALSE, n |-> 0]
  ELSE parseIntLoop(b, i + 1, n * 10 + DigitVal(At(b, i)))

parseInt(b) ==
  CASE Len(b) = 1 /\ b[1] \in Digits -> [ok |-> TRUE, n |-> DigitVal(b[1])]
    [] Len(b) = 2 /\ b[1] \in Digits /\ b[2] \in Digits ->
         [ok |-> TRUE, n |-> DigitVal(b[1]) * 10 + DigitVal(b[2])]
    [] OTHER -> parseIntLoop(b, 0, 0)

(***************************************************************************)
(* reader.ReadCommands, the decoding of the buffered bytes b = buf[start:end]*)
(* A result is [err, cmds, b]: the error (nil when none), the commands     *)
(* decoded so far and the bytes left at label "done".                      *)
(***************************************************************************)
parseDone(b, cmds) == [err |-> nil, cmds |-> cmds, b |-> b]

parseFail(e) == [err |-> e, cmds |-> <<>>, b |-> <<>>]

\* a mutant of Unescape: an escaped byte is kept as it is written
Unescape_Literal(c) == c

\* the escape switch of a quoted inline argument
Unescape(c) ==
  CASE c = "n" -> LF
    [] c = "r" -> CR
    [] c = "t" -> "\t"
    [] OTHER -> c

RECURSIVE inlineArgs(_, _, _, _, _, _)
\* the loop "outer" over one inline line: i is the index into line, nline the
\* argument being built; a "continue outer" restarts with i = 0 and nline empty
inlineArgs(line, i, nline, args, quote, escape) ==
  IF i >= Len(line) THEN
    IF quote THEN [err |-> TRUE, args |-> <<>>]
    ELSE [err |-> FALSE,
          args |-> IF Len(line) > 0 THEN Append(args, line) ELSE args]
  ELSE
    LET c == At(line, i) IN
    IF ~quote THEN
      IF c = " " THEN
        inlineArgs(From(line, i + 1), 0, <<>>,
                   IF Len(nline) > 0 THEN Append(args, nline) ELSE args,
                   quote, escape)
      ELSE IF c = "\"" THEN
        IF i /= 0 THEN [err |-> TRUE, args |-> <<>>]
        ELSE inlineArgs(From(line, i + 1), 0, <<>>, args, TRUE, escape)
      ELSE inlineArgs(line, i + 1, Append(nline, c), args, quote, escape)
    ELSE
      IF escape THEN
        inlineArgs(line, i + 1, Append(nline, Unescape(c)), args, quote, FALSE)
      ELSE IF c = "\"" THEN
        LET rest == From(line, i + 1) IN
        IF Len(rest) > 0 /\ rest[1] /= " " THEN [err |-> TRUE, args |-> <<>>]
        ELSE inlineArgs(rest, 0, <<>>, Append(args, nline), FALSE, escape)
      ELSE IF c = "\\" THEN
        inlineArgs(line, i + 1, nline, args, quote, TRUE)
      ELSE inlineArgs(line, i + 1, Append(nline, c), args, quote, escape)

RECURSIVE respArgs(_, _, _, _, _)
\* the loop "for j := 0; j < ni; j++" of a RESP command, entered with i at the
\* '\n' that ends the previous header or argument.  st is "end" when the loop
\* ran to its end, "notready" at "break outer2", "err" at a return.
respArgs(b, i, j, ni, args) ==
  IF j >= ni THEN [st |-> "end", i |-> i, args |-> args, err |-> nil]
  ELSE
    LET i1 == i + 1 IN
    IF i1 >= Len(b) THEN respArgs(b, i1, j + 1, ni, args)
    ELSE IF At(b, i1) /= "$" THEN
      [st |-> "err", i |-> i1, args |-> args,
       err |-> errProtocol(msgExpected(At(b, i1)))]
    ELSE
      LET k == IndexFrom(b, LF, i1) IN
      IF k >= Len(b) THEN respArgs(b, Len(b), j + 1, ni, args)
      ELSE IF At(b, k - 1) /= CR THEN
        [st |-> "err", i |-> k, args |-> args, err |-> errInvalidBulkLength]
      ELSE
        LET p == parseInt(Slice(b, i1 + 1, k - 1)) IN
        IF ~p.ok \/ p.n < 0 THEN
          [st |-> "err", i |-> k, args |-> args, err |-> errInvalidBulkLength]
        ELSE IF k + p.n + 2 >= Len(b) THEN
          [st |-> "notready", i |-> k, args |-> args, err |-> nil]
        ELSE IF At(b, k + p.n + 2) /= LF \/ At(b, k + p.n + 1) /= CR THEN
          [st |-> "err", i |-> k, args |-> args, err |-> errInvalidBulkLength]
        ELSE
          respArgs(b, k + p.n + 2, j + 1, ni,
                   Append(args, Slice(b, k + 1, k + 1 + p.n)))

RECURSIVE parseNext(_, _)
\* label "next": b is not empty; the first byte chooses the mode
parseNext(b, cmds) ==
  IF b[1] = "*" THEN
    \* case '*': the RESP command
    LET i == IndexFrom(b, LF, 0) IN
    IF i >= Len(b) THEN parseDone(b, cmds)
    ELSE IF At(b, i - 1) /= CR THEN parseFail(errInvalidMultiBulkLength)
    ELSE
      LET p == parseInt(Slice(b, 1, i - 1)) IN
      IF ~p.ok \/ p.n <= 0 THEN parseFail(errInvalidMultiBulkLength)
      ELSE
        LET r == respArgs(b, i, 0, p.n, <<>>) IN
        CASE r.st = "err" -> parseFail(r.err)
          [] r.st = "notready" -> parseDone(b, cmds)
          [] r.st = "end" /\ Len(r.args) = p.n ->
               LET nb == From(b, r.i + 1) IN
               IF Len(nb) > 0 THEN parseNext(nb, Append(cmds, r.args))
               ELSE parseDone(nb, Append(cmds, r.args))
          \* fewer arguments than announced: the argument loop ran past
          \* len(b), so the loop outer2 ends and b is left as it is
          [] OTHER -> parseDone(b, cmds)
  ELSE
    \* default: the inline command
    LET i == IndexFrom(b, LF, 0) IN
    IF i >= Len(b) THEN parseDone(b, cmds)
    ELSE
      LET line == IF i > 0 /\ At(b, i - 1) = CR THEN Slice(b, 0, i - 1)
                  ELSE Slice(b, 0, i)
          t == inlineArgs(line, 0, <<>>, <<>>, FALSE, FALSE)
      IN
      IF t.err THEN parseFail(errUnbalancedQuotes)
      ELSE
        LET cmds2 == IF Len(t.args) > 0 THEN Append(cmds, t.args) ELSE cmds
            nb == From(b, i + 1)
        IN
        IF Len(nb) > 0 THEN parseNext(nb, cmds2) ELSE parseDone(nb, cmds2)

(***************************************************************************)
(* Bounds of the model                                                     *)
(***************************************************************************)
\* connections a client ever opens
MaxConns == 2

\* stands for defaultBufLen (4096 in the source): the length of a pooled read
\* buffer, scaled down so that the inputs of the model fill and double it
BufLen == 8

\* stands for defaultPoolSize (64 in the source)
PoolSize == 1

\* stands for the 64 bytes of capacity of a fresh write buffer
WrCap == 2

\* commands in one input of the reader's specification
MaxCmds == 2

\* calls a handler makes in one invocation (engine specification)
MaxOps == 2

\* calls a handler makes in one invocation (writer specification)
MaxWriterCalls == 2

Conns == 1 .. MaxConns

(***************************************************************************)
(* State                                                                   *)
(***************************************************************************)
VARIABLES
  \* Server
  mu,        \* s.mu: <<"free">>, <<"accept">> (the accept loop's task) or <<"worker", c>>
  ln,        \* s.ln /= nil
  lnOpen,    \* the listener is bound and not closed
  done,      \* s.done
  conns,     \* s.conns: the registry
  rdpool,    \* s.rdpool: the len of each pooled read buffer
  wrpool,    \* s.wrpool: the cap of each pooled write buffer
  \* ListenServeAndSignal
  spc,       \* where the accept loop's task is
  sret,      \* what ListenServeAndSignal returned (Err("none") before it returns)
  signal,    \* the values published on the signal channel
  accepted,  \* connections accepted so far; the latest is the one in the filter
  toclose,   \* the deferred loop "for c := range s.conns": connections left
  closelog,  \* the first call of Server.Close after the signal: what it returned, and when
  \* conn, reader, writer and handle, per connection
  wpc,       \* where the connection's worker (handle) is
  werr,      \* handle's err
  sopen,     \* c.conn is open on this side
  wire,      \* bytes the client sent that no Read returned yet
  eof,       \* the client closes its side once wire is drained
  rd,        \* c.rd: buf (the bytes of buf[0:end]), len (len(buf)), start, end
  wr,        \* c.wr: b, cap (cap(b)), err
  hj,        \* c.hj
  hops,      \* Write calls made by the running handler invocation
  hjc,       \* the handle Hijack returned: its cmds, and where a call on it is
  \* history, read by the properties only
  input,     \* every byte the client sends over the connection's life
  sent,      \* the commands the client's bytes encode, in wire order
  out,       \* the stream writes so far: one byte string per Write call
  delivered, \* the batches passed to the command handler
  wcalls,    \* the Write calls the writer accepted (made with no sticky error), in call order
  outAtCall, \* Len(out) when the latest handler invocation began
  callsAtCall,\* Len(wcalls) when the latest handler invocation began
  selfio,    \* the latest handler invocation called Close or a hijacked Flush
  nflush,    \* calls of Flush made by the engine loop (handle, line 334)
  hret,      \* handler invocations that returned with no writer error
  obs,       \* the errors passed to the CloseObserver
  nworkers   \* workers started by "go handle"

srvVars == <<mu, ln, lnOpen, done, conns, rdpool, wrpool, spc, sret, signal,
             accepted, toclose, closelog>>

connVars == <<wpc, werr, sopen, wire, eof, rd, wr, hj, hops, hjc>>

histVars == <<input, sent, out, delivered, wcalls, outAtCall, callsAtCall, selfio,
              nflush, hret, obs, nworkers>>

vars == <<srvVars, connVars, histVars>>

free == <<"free">>

\* hjc before Hijack is called: no handle (pc "none"). On a handle, cmds is
\* hjc.cmds, got the results its calls returned so far, and pc says where a
\* call is: "idle" between calls, "decode" and "sysread" inside the
\* ReadCommands of ReadCommandBytes, "recursing" in a recursion without end
NoHandle == [pc |-> "none", cmds |-> <<>>, got |-> <<>>]

(***************************************************************************)
(* writer                                                                  *)
(***************************************************************************)
RECURSIVE FormatNat(_)
FormatNat(n) == IF n < 10 THEN <<DigitChar(n)>>
                ELSE Append(FormatNat(n \div 10), DigitChar(n % 10))

\* strconv.FormatInt(int64(n), 10)
FormatInt(n) == IF n < 0 THEN <<"-">> \o FormatNat(0 - n) ELSE FormatNat(n)

\* cap(append(b, ...)) for a result of need bytes: the capacity is kept when it
\* suffices and otherwise at least doubled (the runtime's size classes are not modelled)
GrowCap(cap, need) ==
  IF need <= cap THEN cap ELSE IF need > 2 * cap THEN need ELSE 2 * cap

\* w.b = append(w.b, bytes...)
appendB(w, bytes) ==
  [w EXCEPT !.b = @ \o bytes, !.cap = GrowCap(@, Len(w.b) + Len(bytes))]

WriteNull(w) ==
  IF w.err /= nil THEN w ELSE appendB(w, <<"$", "-", "1", CR, LF>>)

WriteArrayStart(w, count) ==
  IF w.err /= nil THEN w
  ELSE appendB(appendB(appendB(w, <<"*">>), FormatInt(count)), <<CR, LF>>)

WriteBulk(w, bulk) ==
  IF w.err /= nil THEN w
  ELSE appendB(appendB(appendB(appendB(appendB(w, <<"$">>),
         FormatInt(Len(bulk))), <<CR, LF>>), bulk), <<CR, LF>>)

WriteBulkBytes(w, bulk) ==
  IF w.err /= nil THEN w
  ELSE appendB(appendB(appendB(appendB(appendB(w, <<"$">>),
         FormatInt(Len(bulk))), <<CR, LF>>), bulk), <<CR, LF>>)

WriteError(w, msg) ==
  IF w.err /= nil THEN w
  ELSE appendB(appendB(appendB(w, <<"-">>), msg), <<CR, LF>>)

\* a mutant of WriteString: the fast path of "OK" ends the line with '\n' alone
WriteString_FastPathLF(w, msg) ==
  IF w.err /= nil THEN w
  ELSE IF msg = <<"O", "K">> THEN appendB(w, <<"+", "O", "K", LF>>)
  ELSE appendB(appendB(appendB(w, <<"+">>), msg), <<CR, LF>>)

WriteString(w, msg) ==
  IF w.err /= nil THEN w
  ELSE IF msg = <<"O", "K">> THEN appendB(w, <<"+", "O", "K", CR, LF>>)
  ELSE appendB(appendB(appendB(w, <<"+">>), msg), <<CR, LF>>)

WriteInt(w, num) ==
  IF w.err /= nil THEN w
  ELSE appendB(appendB(appendB(w, <<":">>), FormatInt(num)), <<CR, LF>>)

\* what w.w.Write returns: the stream's own error when it is closed on this
\* side, and otherwise io, the outcome the network chooses (nil or errIO)
WriteOutcome(open, io) == IF open THEN io ELSE errNetClosed

IOOutcomes == {nil, errIO}

\* a mutant of Flush: the buffer is not truncated after the write
Flush_NoTruncate(w, open, io) ==
  IF w.err /= nil THEN [w |-> w, wrote |-> <<>>, err |-> w.err]
  ELSE IF Len(w.b) = 0 THEN [w |-> w, wrote |-> <<>>, err |-> nil]
  ELSE IF (IF open THEN io ELSE errNetClosed) /= nil THEN
    [w |-> [w EXCEPT !.err = IF open THEN io ELSE errNetClosed], wrote |-> <<>>,
     err |-> IF open THEN io ELSE errNetClosed]
  ELSE [w |-> w, wrote |-> <<w.b>>, err |-> nil]

\* writer.Flush: [w, wrote, err], wrote holding the byte string handed to the
\* stream's Write (no element when Write was not called or failed)
Flush(w, open, io) ==
  IF w.err /= nil THEN [w |-> w, wrote |-> <<>>, err |-> w.err]
  ELSE IF Len(w.b) = 0 THEN [w |-> w, wrote |-> <<>>, err |-> nil]
  ELSE IF WriteOutcome(open, io) /= nil THEN
    [w |-> [w EXCEPT !.err = WriteOutcome(open, io)], wrote |-> <<>>,
     err |-> WriteOutcome(open, io)]
  ELSE [w |-> [w EXCEPT !.b = <<>>], wrote |-> <<w.b>>, err |-> nil]

\* a mutant of writer.Close: the writer is marked closed without the flush
wrClose_NoFlush(w, open, io) ==
  IF w.err /= nil THEN [w |-> w, wrote |-> <<>>, err |-> w.err]
  ELSE [w |-> [w EXCEPT !.err = errClosed], wrote |-> <<>>, err |-> nil]

\* writer.Close
wrClose(w, open, io) ==
  IF w.err /= nil THEN [w |-> w, wrote |-> <<>>, err |-> w.err]
  ELSE
    LET f == Flush(w, open, io) IN
    IF f.err /= nil THEN [w |-> [f.w EXCEPT !.err = f.err], wrote |-> f.wrote, err |-> f.err]
    ELSE [w |-> [f.w EXCEPT !.err = errClosed], wrote |-> f.wrote, err |-> nil]

\* a call of one of Conn's Write methods, as a record [op, arg]
connWrite(w, call) ==
  CASE call.op = "WriteString" -> WriteString(w, call.arg)
    [] call.op = "WriteError" -> WriteError(w, call.arg)
    [] call.op = "WriteInt" -> WriteInt(w, call.arg)
    [] call.op = "WriteNull" -> WriteNull(w)
    [] call.op = "WriteBulk" -> WriteBulk(w, call.arg)
    [] call.op = "WriteBulkBytes" -> WriteBulkBytes(w, call.arg)
    [] call.op = "WriteArray" -> WriteArrayStart(w, call.arg)

(***************************************************************************)
(* The encodings of the replies as the specification tabulates them, and   *)
(* of a command as a client sends it                                       *)
(***************************************************************************)
CRLF == <<CR, LF>>

Enc(call) ==
  CASE call.op = "WriteString" -> <<"+">> \o call.arg \o CRLF
    [] call.op = "WriteError" -> <<"-">> \o call.arg \o CRLF
    [] call.op = "WriteInt" -> <<":">> \o FormatInt(call.arg) \o CRLF
    [] call.op = "WriteNull" -> <<"$", "-", "1">> \o CRLF
    [] call.op \in {"WriteBulk", "WriteBulkBytes"} ->
         <<"$">> \o FormatInt(Len(call.arg)) \o CRLF \o call.arg \o CRLF
    [] call.op = "WriteArray" -> <<"*">> \o FormatInt(call.arg) \o CRLF

RECURSIVE EncAll(_)
EncAll(calls) == IF calls = <<>> THEN <<>> ELSE Enc(Head(calls)) \o EncAll(Tail(calls))

RECURSIVE EncodeArgs(_)
EncodeArgs(args) ==
  IF args = <<>> THEN <<>>
  ELSE <<"$">> \o FormatInt(Len(Head(args))) \o CRLF \o Head(args) \o CRLF
       \o EncodeArgs(Tail(args))

\* a well-formed RESP command: *N, then N bulk strings
EncodeCmd(args) == <<"*">> \o FormatInt(Len(args)) \o CRLF \o EncodeArgs(args)

RECURSIVE EncodeCmds(_)
EncodeCmds(cmds) ==
  IF cmds = <<>> THEN <<>> ELSE EncodeCmd(Head(cmds)) \o EncodeCmds(Tail(cmds))

IsPrefix(s, t) == Len(s) <= Len(t) /\ SubSeq(t, 1, Len(s)) = s

(***************************************************************************)
(* reader.ReadCommands                                                     *)
(***************************************************************************)
\* a mutant of readBuffered: start is not moved past the commands returned
\* when bytes of a later command stay buffered
readBuffered_KeepStart(r) ==
  IF r.end - r.start > 0 THEN
    LET p == parseNext(Slice(r.buf, r.start, r.end), <<>>) IN
    IF p.err /= nil THEN [r |-> r, cmds |-> <<>>, err |-> p.err, ret |-> TRUE]
    ELSE
      LET r2 == IF Len(p.b) = 0
                THEN [r EXCEPT !.start = 0, !.end = 0, !.buf = <<>>]
                ELSE r
      IN [r |-> r2, cmds |-> p.cmds, err |-> nil, ret |-> Len(p.cmds) > 0]
  ELSE [r |-> r, cmds |-> <<>>, err |-> nil, ret |-> FALSE]

\* a mutant of readBuffered: the commands decoded in front of a framing
\* violation are returned, the cursor moved past them, and the violation is
\* left for the next call
readBuffered_KeepDecoded(r) ==
  IF r.end - r.start > 0 THEN
    LET u == Slice(r.buf, r.start, r.end)
        p == parseNext(u, <<>>)
        whole(k) == LET q == parseNext(SubSeq(u, 1, k), <<>>)
                    IN q.err = nil /\ q.b = <<>> /\ q.cmds /= <<>>
        ks == {k \in 1 .. Len(u) : whole(k)}
    IN
    IF p.err /= nil THEN
      IF ks /= {} THEN
        LET k == CHOOSE k \in ks : \A j \in ks : j <= k
        IN [r |-> [r EXCEPT !.start = @ + k],
            cmds |-> parseNext(SubSeq(u, 1, k), <<>>).cmds, err |-> nil, ret |-> TRUE]
      ELSE [r |-> r, cmds |-> <<>>, err |-> p.err, ret |-> TRUE]
    ELSE
      LET r2 == IF Len(p.b) = 0
                THEN [r EXCEPT !.start = 0, !.end = 0, !.buf = <<>>]
                ELSE [r EXCEPT !.start = r.end - Len(p.b)]
      IN [r |-> r2, cmds |-> p.cmds, err |-> nil, ret |-> Len(p.cmds) > 0]
  ELSE [r |-> r, cmds |-> <<>>, err |-> nil, ret |-> FALSE]

\* a mutant of readBuffered: ReadCommands returns what it decoded, were it
\* nothing, instead of reading from the stream again
readBuffered_EmptyBatch(r) ==
  IF r.end - r.start > 0 THEN
    LET p == parseNext(Slice(r.buf, r.start, r.end), <<>>) IN
    IF p.err /= nil THEN [r |-> r, cmds |-> <<>>, err |-> p.err, ret |-> TRUE]
    ELSE
      LET r2 == IF Len(p.b) = 0
                THEN [r EXCEPT !.start = 0, !.end = 0, !.buf = <<>>]
                ELSE [r EXCEPT !.start = r.end - Len(p.b)]
      IN [r |-> r2, cmds |-> p.cmds, err |-> nil, ret |-> TRUE]
  ELSE [r |-> r, cmds |-> <<>>, err |-> nil, ret |-> FALSE]

\* lines 451-608: decode what is buffered.  ret says that ReadCommands returns
\* here (commands or an error); otherwise it goes on to read from the stream.
readBuffered(r) ==
  IF r.end - r.start > 0 THEN
    LET p == parseNext(Slice(r.buf, r.start, r.end), <<>>) IN
    IF p.err /= nil THEN [r |-> r, cmds |-> <<>>, err |-> p.err, ret |-> TRUE]
    ELSE
      LET r2 == IF Len(p.b) = 0
                THEN [r EXCEPT !.start = 0, !.end = 0, !.buf = <<>>]
                ELSE [r EXCEPT !.start = r.end - Len(p.b)]
      IN [r |-> r2, cmds |-> p.cmds, err |-> nil, ret |-> Len(p.cmds) > 0]
  ELSE [r |-> r, cmds |-> <<>>, err |-> nil, ret |-> FALSE]

\* lines 609-613: a full buffer is doubled before the read
readGrow(r) == IF r.end = r.len THEN [r EXCEPT !.len = 2 * @] ELSE r

\* lines 614-623: n bytes arrive
readInto(r, bytes) == [r EXCEPT !.buf = @ \o bytes, !.end = @ + Len(bytes)]

\* a mutant of readError: io.EOF is returned as it is, bytes buffered or not
readError_PlainEOF(r, e) == e

\* lines 615-621: the error ReadCommands returns for the stream's error e
readError(r, e) == IF e = EOF /\ r.end > 0 THEN ErrUnexpectedEOF ELSE e

(***************************************************************************)
(* handle: the engine loop of connection c                                 *)
(***************************************************************************)
\* handle, lines 292-327, with ReadCommands up to its stream read: a protocol
\* error is answered and ends the loop, commands go to the handler
EngineRead(c) ==
  /\ wpc[c] = "read"
  /\ LET res == readBuffered(rd[c]) IN
     IF res.err /= nil THEN
       \E io \in IOOutcomes :
         LET f == Flush(WriteError(wr[c], <<"E", "R", "R", " ">> \o ErrorString(res.err)),
                        sopen[c], io)
         IN /\ wr' = [wr EXCEPT ![c] = f.w]
            /\ out' = [out EXCEPT ![c] = @ \o f.wrote]
            /\ werr' = [werr EXCEPT ![c] = res.err]
            /\ wpc' = [wpc EXCEPT ![c] = "exit"]
            /\ UNCHANGED <<rd, delivered, hops, outAtCall, callsAtCall, selfio>>
     ELSE IF res.ret THEN
       /\ rd' = [rd EXCEPT ![c] = res.r]
       /\ delivered' = [delivered EXCEPT ![c] = Append(@, res.cmds)]
       /\ wpc' = [wpc EXCEPT ![c] = "handler"]
       /\ hops' = [hops EXCEPT ![c] = 0]
       /\ outAtCall' = [outAtCall EXCEPT ![c] = Len(out[c])]
       /\ callsAtCall' = [callsAtCall EXCEPT ![c] = Len(wcalls[c])]
       /\ selfio' = [selfio EXCEPT ![c] = FALSE]
       /\ UNCHANGED <<wr, out, werr>>
     ELSE
       /\ rd' = [rd EXCEPT ![c] = res.r]
       /\ wpc' = [wpc EXCEPT ![c] = "sysread"]
       /\ UNCHANGED <<wr, out, werr, delivered, hops, outAtCall, callsAtCall, selfio>>
  /\ UNCHANGED <<srvVars, sopen, wire, eof, hj, hjc, input, sent, wcalls, nflush, hret, obs, nworkers>>

\* ReadCommands, lines 609-624: the stream's Read returns n bytes
StreamRead(c) ==
  /\ wpc[c] = "sysread"
  /\ sopen[c]
  /\ \E n \in 1 .. Min(Len(wire[c]), readGrow(rd[c]).len - readGrow(rd[c]).end) :
       /\ rd' = [rd EXCEPT ![c] = readInto(readGrow(rd[c]), SubSeq(wire[c], 1, n))]
       /\ wire' = [wire EXCEPT ![c] = From(@, n)]
  /\ wpc' = [wpc EXCEPT ![c] = "read"]
  /\ UNCHANGED <<srvVars, werr, sopen, eof, wr, hj, hops, hjc, histVars>>

\* ReadCommands, lines 609-621: the stream's Read returns io.EOF, the client
\* having closed its side with nothing left to deliver
StreamEOF(c) ==
  /\ wpc[c] = "sysread"
  /\ sopen[c]
  /\ wire[c] = <<>>
  /\ eof[c]
  /\ rd' = [rd EXCEPT ![c] = readGrow(@)]
  /\ werr' = [werr EXCEPT ![c] = readError(readGrow(rd[c]), EOF)]
  /\ wpc' = [wpc EXCEPT ![c] = "exit"]
  /\ UNCHANGED <<srvVars, sopen, wire, eof, wr, hj, hops, hjc, histVars>>

\* ReadCommands, lines 609-621: the stream's Read fails, the stream having
\* been closed on this side
StreamReadClosed(c) ==
  /\ wpc[c] = "sysread"
  /\ ~sopen[c]
  /\ rd' = [rd EXCEPT ![c] = readGrow(@)]
  /\ werr' = [werr EXCEPT ![c] = readError(readGrow(rd[c]), errNetClosed)]
  /\ wpc' = [wpc EXCEPT ![c] = "exit"]
  /\ UNCHANGED <<srvVars, sopen, wire, eof, wr, hj, hops, hjc, histVars>>

\* the command handler calls one of Conn's Write methods (lines 361-381)
HandlerWrite(c, calls, max) ==
  /\ wpc[c] = "handler"
  /\ hops[c] < max
  /\ \E call \in calls :
       /\ wr' = [wr EXCEPT ![c] = connWrite(@, call)]
       /\ wcalls' = [wcalls EXCEPT ![c] = IF wr[c].err = nil THEN Append(@, call) ELSE @]
  /\ hops' = [hops EXCEPT ![c] = @ + 1]
  /\ UNCHANGED <<srvVars, wpc, werr, sopen, wire, eof, rd, hj, hjc, input, sent, out, delivered,
                 outAtCall, callsAtCall, selfio, nflush, hret, obs, nworkers>>

\* the command handler calls conn.Close (lines 350-354)
HandlerClose(c) ==
  /\ wpc[c] = "handler"
  /\ \E io \in IOOutcomes :
       LET r == wrClose(wr[c], sopen[c], io) IN
       /\ wr' = [wr EXCEPT ![c] = r.w]
       /\ out' = [out EXCEPT ![c] = @ \o r.wrote]
  /\ sopen' = [sopen EXCEPT ![c] = FALSE]
  /\ selfio' = [selfio EXCEPT ![c] = TRUE]
  /\ UNCHANGED <<srvVars, wpc, werr, wire, eof, rd, hj, hops, hjc, input, sent, delivered, wcalls,
                 outAtCall, callsAtCall, nflush, hret, obs, nworkers>>

\* the command handler calls conn.Hijack (lines 387-390)
HandlerHijack(c) ==
  /\ wpc[c] = "handler"
  /\ ~hj[c]
  /\ hj' = [hj EXCEPT ![c] = TRUE]
  /\ hjc' = [hjc EXCEPT ![c] = [NoHandle EXCEPT !.pc = "idle"]]
  /\ UNCHANGED <<srvVars, wpc, werr, sopen, wire, eof, rd, wr, hops, histVars>>

\* the command handler calls Flush on the handle Hijack returned (lines 397-399)
HijackedFlush(c) ==
  /\ wpc[c] = "handler"
  /\ hj[c]
  /\ \E io \in IOOutcomes :
       LET f == Flush(wr[c], sopen[c], io) IN
       /\ wr' = [wr EXCEPT ![c] = f.w]
       /\ out' = [out EXCEPT ![c] = @ \o f.wrote]
  /\ selfio' = [selfio EXCEPT ![c] = TRUE]
  /\ UNCHANGED <<srvVars, wpc, werr, sopen, wire, eof, rd, hj, hops, hjc, input, sent, delivered, wcalls,
                 outAtCall, callsAtCall, nflush, hret, obs, nworkers>>

\* calls made on one hijacked handle
MaxHjCalls == 3

\* a call on the handle returns x: a command, or an error
hjReturn(h, x) == [pc |-> "idle", cmds |-> h.cmds, got |-> Append(h.got, x)]

\* hijackedConn.ReadCommandBytes, lines 401-411: a buffered command is taken
\* off hjc.cmds and returned; with none the call goes on to ReadCommands
HjReadCommandBytes(c) ==
  /\ hjc[c].pc = "idle"
  /\ Len(hjc[c].got) < MaxHjCalls
  /\ LET h == hjc[c] IN
     hjc' = [hjc EXCEPT ![c] =
               IF Len(h.cmds) > 0
               THEN hjReturn([h EXCEPT !.cmds = Tail(h.cmds)],
                             [cmd |-> Head(h.cmds), err |-> nil])
               ELSE [h EXCEPT !.pc = "decode"]]
  /\ UNCHANGED <<srvVars, wpc, werr, sopen, wire, eof, rd, wr, hj, hops, histVars>>

\* lines 412-417 and 451-608: ReadCommands decodes what is buffered. An error
\* is returned; a batch becomes hjc.cmds and the call made again returns its
\* first command; with no complete command ReadCommands reads from the stream
hjDecoded(h, r, res) ==
  IF res.err /= nil THEN [h |-> hjReturn(h, [cmd |-> <<>>, err |-> res.err]), r |-> r]
  ELSE IF res.ret THEN
    [h |-> hjReturn([h EXCEPT !.cmds = Tail(res.cmds)],
                    [cmd |-> Head(res.cmds), err |-> nil]),
     r |-> res.r]
  ELSE [h |-> [h EXCEPT !.pc = "sysread"], r |-> res.r]

\* the reader and the handle of c become those of d
hjDecodeTo(c, d) ==
  /\ rd' = [rd EXCEPT ![c] = d.r]
  /\ hjc' = [hjc EXCEPT ![c] = d.h]

\* the handle's call is in ReadCommands, at the decoding of the buffer
HjDecode(c) ==
  /\ hjc[c].pc = "decode"
  /\ hjDecodeTo(c, hjDecoded(hjc[c], rd[c], readBuffered(rd[c])))
  /\ UNCHANGED <<srvVars, wpc, werr, sopen, wire, eof, wr, hj, hops, histVars>>

\* lines 609-624 under ReadCommandBytes: the stream's Read returns n bytes
HjStreamRead(c) ==
  /\ hjc[c].pc = "sysread"
  /\ sopen[c]
  /\ \E n \in 1 .. Min(Len(wire[c]), readGrow(rd[c]).len - readGrow(rd[c]).end) :
       /\ rd' = [rd EXCEPT ![c] = readInto(readGrow(rd[c]), SubSeq(wire[c], 1, n))]
       /\ wire' = [wire EXCEPT ![c] = From(@, n)]
  /\ hjc' = [hjc EXCEPT ![c] = [hjc[c] EXCEPT !.pc = "decode"]]
  /\ UNCHANGED <<srvVars, wpc, werr, sopen, eof, wr, hj, hops, histVars>>

\* lines 609-621 under ReadCommandBytes: the stream's Read returns io.EOF,
\* and the call returns the reader's error
HjStreamEOF(c) ==
  /\ hjc[c].pc = "sysread"
  /\ sopen[c]
  /\ wire[c] = <<>>
  /\ eof[c]
  /\ rd' = [rd EXCEPT ![c] = readGrow(@)]
  /\ hjc' = [hjc EXCEPT ![c] =
               hjReturn(hjc[c], [cmd |-> <<>>, err |-> readError(readGrow(rd[c]), EOF)])]
  /\ UNCHANGED <<srvVars, wpc, werr, sopen, wire, eof, wr, hj, hops, histVars>>

\* hijackedConn.ReadCommand, lines 420-431: a buffered command is taken off
\* hjc.cmds and returned; with none the function calls itself, with the same
\* empty hjc.cmds, and so on without end: the call never returns
HjReadCommand(c) ==
  /\ hjc[c].pc = "idle"
  /\ Len(hjc[c].got) < MaxHjCalls
  /\ LET h == hjc[c] IN
     hjc' = [hjc EXCEPT ![c] =
               IF Len(h.cmds) > 0
               THEN hjReturn([h EXCEPT !.cmds = Tail(h.cmds)],
                             [cmd |-> Head(h.cmds), err |-> nil])
               ELSE [h EXCEPT !.pc = "recursing"]]
  /\ UNCHANGED <<srvVars, wpc, werr, sopen, wire, eof, rd, wr, hj, hops, histVars>>

\* a mutant of HandlerReturn: the loop goes back to ReadCommands without the flush
HandlerReturn_NoFlush(c) ==
  /\ wpc[c] = "handler"
  /\ IF wr[c].err /= nil THEN
       /\ werr' = [werr EXCEPT ![c] = IF wr[c].err = errClosed THEN nil ELSE wr[c].err]
       /\ wpc' = [wpc EXCEPT ![c] = "exit"]
       /\ UNCHANGED hret
     ELSE
       /\ hret' = [hret EXCEPT ![c] = @ + 1]
       /\ IF hj[c] THEN
            /\ werr' = [werr EXCEPT ![c] = errHijacked]
            /\ wpc' = [wpc EXCEPT ![c] = "exit"]
          ELSE
            /\ wpc' = [wpc EXCEPT ![c] = "read"]
            /\ UNCHANGED werr
  /\ UNCHANGED <<srvVars, sopen, wire, eof, rd, wr, hj, hops, hjc, input, sent, out, delivered, wcalls,
                 outAtCall, callsAtCall, selfio, nflush, obs, nworkers>>

\* the handler returns: handle, lines 328-337, and the hijack test at the top
\* of the next iteration, lines 292-294
HandlerReturn(c) ==
  /\ wpc[c] = "handler"
  /\ IF wr[c].err /= nil THEN
       /\ werr' = [werr EXCEPT ![c] = IF wr[c].err = errClosed THEN nil ELSE wr[c].err]
       /\ wpc' = [wpc EXCEPT ![c] = "exit"]
       /\ UNCHANGED <<wr, out, nflush, hret>>
     ELSE
       \E io \in IOOutcomes :
         LET f == Flush(wr[c], sopen[c], io) IN
         /\ wr' = [wr EXCEPT ![c] = f.w]
         /\ out' = [out EXCEPT ![c] = @ \o f.wrote]
         /\ nflush' = [nflush EXCEPT ![c] = @ + 1]
         /\ hret' = [hret EXCEPT ![c] = @ + 1]
         /\ IF f.err /= nil THEN
              /\ werr' = [werr EXCEPT ![c] = f.err]
              /\ wpc' = [wpc EXCEPT ![c] = "exit"]
            ELSE IF hj[c] THEN
              /\ werr' = [werr EXCEPT ![c] = errHijacked]
              /\ wpc' = [wpc EXCEPT ![c] = "exit"]
            ELSE
              /\ wpc' = [wpc EXCEPT ![c] = "read"]
              /\ UNCHANGED werr
  /\ UNCHANGED <<srvVars, sopen, wire, eof, rd, hj, hops, hjc, input, sent, delivered, wcalls,
                 outAtCall, callsAtCall, selfio, obs, nworkers>>

\* handle's deferred function, lines 266-269: the stream is closed unless hijacked
WorkerExit(c) ==
  /\ wpc[c] = "exit"
  /\ sopen' = [sopen EXCEPT ![c] = IF werr[c] /= errHijacked THEN FALSE ELSE @]
  /\ wpc' = [wpc EXCEPT ![c] = "cleanup"]
  /\ UNCHANGED <<srvVars, werr, wire, eof, rd, wr, hj, hops, hjc, histVars>>

\* lines 270-278: under the server's lock the connection leaves the registry
\* and the CloseObserver is called, io.EOF passed as nil
Cleanup(c) ==
  /\ wpc[c] = "cleanup"
  /\ mu = free
  /\ mu' = <<"worker", c>>
  /\ conns' = conns \ {c}
  /\ werr' = [werr EXCEPT ![c] = IF @ = EOF THEN nil ELSE @]
  /\ obs' = [obs EXCEPT ![c] = Append(@, IF werr[c] = EOF THEN nil ELSE werr[c])]
  /\ wpc' = [wpc EXCEPT ![c] = "observer"]
  /\ UNCHANGED <<ln, lnOpen, done, rdpool, wrpool, spc, sret, signal, accepted,
                 toclose, closelog, sopen, wire, eof, rd, wr, hj, hops, hjc, input, sent, out,
                 delivered, wcalls, outAtCall, callsAtCall, selfio, nflush, hret, nworkers>>

\* a mutant of ObserverReturn: the buffers go back to the pools whatever
\* their size and however many the pools hold
ObserverReturn_NoCaps(c) ==
  /\ wpc[c] = "observer"
  /\ rdpool' = IF werr[c] /= errHijacked THEN Append(rdpool, rd[c].len) ELSE rdpool
  /\ wrpool' = IF werr[c] /= errHijacked THEN Append(wrpool, wr[c].cap) ELSE wrpool
  /\ mu' = free
  /\ wpc' = [wpc EXCEPT ![c] = "done"]
  /\ UNCHANGED <<ln, lnOpen, done, conns, spc, sret, signal, accepted, toclose, closelog,
                 werr, sopen, wire, eof, rd, wr, hj, hops, hjc, histVars>>

\* lines 280-288: the CloseObserver returns, the buffers go back to the pools
\* and the lock is released
ObserverReturn(c) ==
  /\ wpc[c] = "observer"
  /\ rdpool' = IF werr[c] /= errHijacked /\ Len(rdpool) < PoolSize /\ rd[c].len < BufLen
               THEN Append(rdpool, rd[c].len) ELSE rdpool
  /\ wrpool' = IF werr[c] /= errHijacked /\ Len(wrpool) < PoolSize /\ wr[c].cap < BufLen
               THEN Append(wrpool, wr[c].cap) ELSE wrpool
  /\ mu' = free
  /\ wpc' = [wpc EXCEPT ![c] = "done"]
  /\ UNCHANGED <<ln, lnOpen, done, conns, spc, sret, signal, accepted, toclose, closelog,
                 werr, sopen, wire, eof, rd, wr, hj, hops, hjc, histVars>>

(***************************************************************************)
(* The server: ListenServeAndSignal and Server.Close                       *)
(***************************************************************************)
\* Server.Close's error when s.ln is nil, line 148
errNotServing == Err("not serving")

\* net.Listen's error, line 167
errListen == Err("listen")

\* AcceptTCP's error, line 193
errAccept == Err("accept")

\* the accept loop's task is inside "for { ... }", lines 192-240
InAcceptLoop == spc \in {"accept", "register", "filter", "reject"}

\* lines 167-173: net.Listen; a bind error is published and returned
Listen ==
  /\ spc = "listen"
  /\ \E ok \in BOOLEAN :
       IF ok
       THEN /\ lnOpen' = TRUE
            /\ spc' = "signal"
            /\ UNCHANGED <<signal, sret>>
       ELSE /\ signal' = Append(signal, errListen)
            /\ sret' = errListen
            /\ spc' = "returned"
            /\ UNCHANGED lnOpen
  /\ UNCHANGED <<mu, ln, done, conns, rdpool, wrpool, accepted, toclose, closelog,
                 connVars, histVars>>

\* lines 174-176: nil is published on the signal channel
Signal ==
  /\ spc = "signal"
  /\ signal' = Append(signal, nil)
  /\ spc' = "setln"
  /\ UNCHANGED <<mu, ln, lnOpen, done, conns, rdpool, wrpool, sret, accepted, toclose,
                 closelog, connVars, histVars>>

\* lines 177-180: s.ln is set under the lock
SetLn ==
  /\ spc = "setln"
  /\ mu = free
  /\ ln' = TRUE
  /\ spc' = "accept"
  /\ UNCHANGED <<mu, lnOpen, done, conns, rdpool, wrpool, sret, signal, accepted, toclose,
                 closelog, connVars, histVars>>

\* lines 193, 202-208: AcceptTCP returns the next client's stream and the
\* conn is built around it
Accept(c) ==
  /\ spc = "accept"
  /\ lnOpen
  /\ c = accepted + 1
  /\ accepted' = c
  /\ sopen' = [sopen EXCEPT ![c] = TRUE]
  /\ wpc' = [wpc EXCEPT ![c] = "accepted"]
  /\ spc' = "register"
  /\ UNCHANGED <<mu, ln, lnOpen, done, conns, rdpool, wrpool, sret, signal, toclose,
                 closelog, werr, wire, eof, rd, wr, hj, hops, hjc, histVars>>

\* lines 209-224: under the lock the conn takes its buffers, from the pools
\* when they have one, and enters the registry
Register(c) ==
  /\ spc = "register"
  /\ c = accepted
  /\ mu = free
  /\ rd' = [rd EXCEPT ![c] = [buf |-> <<>>, start |-> 0, end |-> 0,
                              len |-> IF Len(rdpool) > 0 THEN rdpool[Len(rdpool)]
                                      ELSE BufLen]]
  /\ rdpool' = IF Len(rdpool) > 0 THEN SubSeq(rdpool, 1, Len(rdpool) - 1) ELSE rdpool
  /\ wr' = [wr EXCEPT ![c] = [b |-> <<>>, err |-> nil,
                              cap |-> IF Len(wrpool) > 0 THEN wrpool[Len(wrpool)]
                                      ELSE WrCap]]
  /\ wrpool' = IF Len(wrpool) > 0 THEN SubSeq(wrpool, 1, Len(wrpool) - 1) ELSE wrpool
  /\ conns' = conns \cup {c}
  /\ wpc' = [wpc EXCEPT ![c] = "filter"]
  /\ spc' = "filter"
  /\ UNCHANGED <<mu, ln, lnOpen, done, sret, signal, accepted, toclose, closelog,
                 werr, sopen, wire, eof, hj, hops, hjc, histVars>>

\* lines 225, 232-239: the AcceptFilter answers; on true (or with no filter)
\* "go handle" starts the connection's worker
AcceptFilter(c) ==
  /\ spc = "filter"
  /\ c = accepted
  /\ \E ok \in BOOLEAN :
       IF ok
       THEN /\ wpc' = [wpc EXCEPT ![c] = "read"]
            /\ nworkers' = [nworkers EXCEPT ![c] = @ + 1]
            /\ spc' = "accept"
       ELSE /\ spc' = "reject"
            /\ UNCHANGED <<wpc, nworkers>>
  /\ UNCHANGED <<mu, ln, lnOpen, done, conns, rdpool, wrpool, sret, signal, accepted,
                 toclose, closelog, werr, sopen, wire, eof, rd, wr, hj, hops, hjc, input, sent, out,
                 delivered, wcalls, outAtCall, callsAtCall, selfio, nflush, hret, obs>>

\* a mutant of Reject: the rejected connection leaves the registry but
\* its stream is left open
Reject_NoClose(c) ==
  /\ spc = "reject"
  /\ c = accepted
  /\ mu = free
  /\ conns' = conns \ {c}
  /\ wpc' = [wpc EXCEPT ![c] = "rejected"]
  /\ spc' = "accept"
  /\ UNCHANGED <<mu, ln, lnOpen, done, rdpool, wrpool, sret, signal, accepted, toclose,
                 closelog, werr, sopen, wire, eof, rd, wr, hj, hops, hjc, histVars>>

\* lines 226-230: the AcceptFilter said false; the conn is deleted from the
\* registry under the lock and then closed, the lock released
Reject(c) ==
  /\ spc = "reject"
  /\ c = accepted
  /\ mu = free
  /\ conns' = conns \ {c}
  /\ \E io \in IOOutcomes :
       LET r == wrClose(wr[c], sopen[c], io) IN
       /\ wr' = [wr EXCEPT ![c] = r.w]
       /\ out' = [out EXCEPT ![c] = @ \o r.wrote]
  /\ sopen' = [sopen EXCEPT ![c] = FALSE]
  /\ wpc' = [wpc EXCEPT ![c] = "rejected"]
  /\ spc' = "accept"
  /\ UNCHANGED <<mu, ln, lnOpen, done, rdpool, wrpool, sret, signal, accepted, toclose,
                 closelog, werr, wire, eof, rd, hj, hops, hjc, input, sent, delivered, wcalls,
                 outAtCall, callsAtCall, selfio, nflush, hret, obs, nworkers>>

\* lines 193-201 and 182: AcceptTCP fails, as it does once the listener is
\* closed; s.done is read under the lock and decides the return value; the
\* deferred function then closes the listener
AcceptError ==
  /\ spc = "accept"
  /\ ~lnOpen
  /\ mu = free
  /\ sret' = IF done THEN nil ELSE errAccept
  /\ lnOpen' = FALSE
  /\ spc' = "defer"
  /\ UNCHANGED <<mu, ln, done, conns, rdpool, wrpool, signal, accepted, toclose,
                 closelog, connVars, histVars>>

\* lines 183-186: the deferred function takes the lock and starts to range
\* over the registry
DeferLock ==
  /\ spc = "defer"
  /\ mu = free
  /\ mu' = <<"accept">>
  /\ toclose' = conns
  /\ spc' = "closing"
  /\ UNCHANGED <<ln, lnOpen, done, conns, rdpool, wrpool, sret, signal, accepted,
                 closelog, connVars, histVars>>

\* lines 186-188 and 350-354: c.Close() on one connection of the registry,
\* in the accept loop's task and under the lock: the connection's writer is
\* flushed and closed, then its stream is closed
ServerCloseConn(c) ==
  /\ spc = "closing"
  /\ c \in toclose
  /\ \E io \in IOOutcomes :
       LET r == wrClose(wr[c], sopen[c], io) IN
       /\ wr' = [wr EXCEPT ![c] = r.w]
       /\ out' = [out EXCEPT ![c] = @ \o r.wrote]
  /\ sopen' = [sopen EXCEPT ![c] = FALSE]
  /\ toclose' = toclose \ {c}
  /\ UNCHANGED <<mu, ln, lnOpen, done, conns, rdpool, wrpool, spc, sret, signal,
                 accepted, closelog, wpc, werr, wire, eof, rd, hj, hops, hjc, input, sent, delivered,
                 wcalls, outAtCall, callsAtCall, selfio, nflush, hret, obs, nworkers>>

\* lines 189-190: s.conns = nil, the lock is released and
\* ListenServeAndSignal returns
ServerReturn ==
  /\ spc = "closing"
  /\ toclose = {}
  /\ conns' = {}
  /\ mu' = free
  /\ spc' = "returned"
  /\ UNCHANGED <<ln, lnOpen, done, rdpool, wrpool, sret, signal, accepted, toclose,
                 closelog, connVars, histVars>>

\* Server.Close, lines 144-152, called from a task that holds no lock, any
\* number of times. closelog keeps the first call made after nil was
\* published on the signal channel: what it returned, and the registry of
\* that moment
ServerClose ==
  /\ mu = free
  /\ LET log(r) == IF nil \in Range(signal) /\ closelog = <<>>
                   THEN <<[ret |-> r, reg |-> conns]>>
                   ELSE closelog IN
       IF ~ln
       THEN /\ closelog' = log(errNotServing)
            /\ UNCHANGED <<done, lnOpen>>
       ELSE /\ done' = TRUE
            /\ lnOpen' = FALSE
            /\ closelog' = log(IF lnOpen THEN nil ELSE errNetClosed)
  /\ UNCHANGED <<mu, ln, conns, rdpool, wrpool, spc, sret, signal, accepted, toclose,
                 connVars, histVars>>

\* the CloseObserver calls Server.Close (line 145) while handle's deferred
\* function holds the lock (lines 271-278): sync.Mutex is not reentrant, the
\* worker blocks on s.mu.Lock() and the lock is never released
ObserverServerClose(c) ==
  /\ wpc[c] = "observer"
  /\ wpc' = [wpc EXCEPT ![c] = "blocked"]
  /\ UNCHANGED <<srvVars, werr, sopen, wire, eof, rd, wr, hj, hops, hjc, histVars>>

(***************************************************************************)
(* The reader's specification: one connection whose handler writes         *)
(* nothing, fed well-formed RESP commands cut into arbitrary chunks        *)
(***************************************************************************)
ReaderArgs == {<<>>, <<LF>>, <<"a", CR, LF, "$">>}

ReaderCmds == {<<a>> : a \in ReaderArgs} \cup {<<<<"a", CR, LF, "$">>, <<>>>>, <<<<LF>>, <<LF>>>>}

RECURSIVE SeqsUpTo(_, _)
\* the sequences of 0 to n elements of S
SeqsUpTo(S, n) ==
  IF n = 0 THEN {<<>>}
  ELSE LET T == SeqsUpTo(S, n - 1) IN T \cup {Append(t, x) : t \in {u \in T : Len(u) = n - 1}, x \in S}

\* the state of the connections no client has opened
NoConn ==
  /\ wpc = [c \in Conns |-> "new"]
  /\ werr = [c \in Conns |-> nil]
  /\ sopen = [c \in Conns |-> FALSE]
  /\ rd = [c \in Conns |-> [buf |-> <<>>, len |-> 0, start |-> 0, end |-> 0]]
  /\ wr = [c \in Conns |-> [b |-> <<>>, cap |-> 0, err |-> nil]]
  /\ hj = [c \in Conns |-> FALSE]
  /\ hops = [c \in Conns |-> 0]
  /\ hjc = [c \in Conns |-> NoHandle]
  /\ out = [c \in Conns |-> <<>>]
  /\ delivered = [c \in Conns |-> <<>>]
  /\ wcalls = [c \in Conns |-> <<>>]
  /\ outAtCall = [c \in Conns |-> 0]
  /\ callsAtCall = [c \in Conns |-> 0]
  /\ selfio = [c \in Conns |-> FALSE]
  /\ nflush = [c \in Conns |-> 0]
  /\ hret = [c \in Conns |-> 0]
  /\ obs = [c \in Conns |-> <<>>]
  /\ nworkers = [c \in Conns |-> 0]

\* a server in its accept loop whose first connection has passed the filter:
\* its worker is about to call ReadCommands for the first time
OneConn ==
  /\ mu = free
  /\ ln = TRUE
  /\ lnOpen = TRUE
  /\ done = FALSE
  /\ conns = {1}
  /\ rdpool = [i \in 1 .. PoolSize - 1 |-> BufLen]
  /\ wrpool = <<>>
  /\ spc = "accept"
  /\ sret = Err("none")
  /\ signal = <<nil>>
  /\ accepted = 1
  /\ toclose = {}
  /\ closelog = <<>>
  /\ wpc = [c \in Conns |-> IF c = 1 THEN "read" ELSE "new"]
  /\ werr = [c \in Conns |-> nil]
  /\ sopen = [c \in Conns |-> c = 1]
  /\ rd = [c \in Conns |-> [buf |-> <<>>, len |-> IF c = 1 THEN BufLen ELSE 0,
                            start |-> 0, end |-> 0]]
  /\ wr = [c \in Conns |-> [b |-> <<>>, cap |-> IF c = 1 THEN WrCap ELSE 0, err |-> nil]]
  /\ hj = [c \in Conns |-> FALSE]
  /\ hops = [c \in Conns |-> 0]
  /\ hjc = [c \in Conns |-> NoHandle]
  /\ out = [c \in Conns |-> <<>>]
  /\ delivered = [c \in Conns |-> <<>>]
  /\ wcalls = [c \in Conns |-> <<>>]
  /\ outAtCall = [c \in Conns |-> 0]
  /\ callsAtCall = [c \in Conns |-> 0]
  /\ selfio = [c \in Conns |-> FALSE]
  /\ nflush = [c \in Conns |-> 0]
  /\ hret = [c \in Conns |-> 0]
  /\ obs = [c \in Conns |-> <<>>]
  /\ nworkers = [c \in Conns |-> IF c = 1 THEN 1 ELSE 0]

InitReader ==
  /\ OneConn
  /\ \E cmds \in SeqsUpTo(ReaderCmds, MaxCmds) \ {<<>>} :
       /\ sent = [c \in Conns |-> IF c = 1 THEN cmds ELSE <<>>]
       /\ wire = [c \in Conns |-> IF c = 1 THEN EncodeCmds(cmds) ELSE <<>>]
       /\ input = wire
  /\ eof \in [Conns -> BOOLEAN]
  /\ \A c \in Conns : c /= 1 => ~eof[c]

NextReader ==
  \/ EngineRead(1)
  \/ StreamRead(1)
  \/ StreamEOF(1)
  \/ HandlerReturn(1)

SpecReader == InitReader /\ [][NextReader]_vars

(***************************************************************************)
(* The engine's specification: one connection, its handler writing         *)
(* replies, closing or hijacking, while the server keeps serving           *)
(***************************************************************************)
\* what a client sends, with the commands it encodes: inline and RESP
\* commands, pipelined, and the four kinds of framing violation
ConnInputs ==
  { [bytes |-> <<"a", LF, "b", CR, LF>>, cmds |-> << <<<<"a">>>>, <<<<"b">>>> >>],
    [bytes |-> <<"a", LF>> \o EncodeCmd(<< <<"b">> >>), cmds |-> << <<<<"a">>>>, <<<<"b">>>> >>],
    [bytes |-> <<"a", LF, "\"", LF>>, cmds |-> << <<<<"a">>>> >>],
    [bytes |-> <<"*", "x", CR, LF>>, cmds |-> <<>>],
    [bytes |-> <<"a", LF, "*", "1", CR, LF, "x">>, cmds |-> << <<<<"a">>>> >>],
    [bytes |-> <<"*", "1", CR, LF, "$", "1", CR, LF, "a", "b", CR, LF>>, cmds |-> <<>>] }

\* the replies a handler of the engine's specification writes
ConnCalls ==
  { [op |-> "WriteString", arg |-> <<"O", "K">>],
    [op |-> "WriteBulk", arg |-> <<"v">>] }

InitConn ==
  /\ OneConn
  /\ \E in \in ConnInputs :
       /\ sent = [c \in Conns |-> IF c = 1 THEN in.cmds ELSE <<>>]
       /\ wire = [c \in Conns |-> IF c = 1 THEN in.bytes ELSE <<>>]
       /\ input = wire
  /\ eof \in [Conns -> BOOLEAN]
  /\ \A c \in Conns : c /= 1 => ~eof[c]

NextConn ==
  \/ EngineRead(1)
  \/ StreamRead(1)
  \/ StreamEOF(1)
  \/ HandlerWrite(1, ConnCalls, MaxOps)
  \/ HandlerClose(1)
  \/ HandlerHijack(1)
  \/ HijackedFlush(1)
  \/ HandlerReturn(1)
  \/ WorkerExit(1)
  \/ Cleanup(1)
  \/ ObserverReturn(1)

SpecConn == InitConn /\ [][NextConn]_vars

(***************************************************************************)
(* The writer's specification: one handler invocation making every kind of *)
(* Write call, and flushing through the hijacked handle                    *)
(***************************************************************************)
WriterCalls ==
  { [op |-> "WriteString", arg |-> <<"O", "K">>],
    [op |-> "WriteString", arg |-> <<"O">>],
    [op |-> "WriteError", arg |-> <<"E", "R", "R", " ", "x">>],
    [op |-> "WriteInt", arg |-> 0],
    [op |-> "WriteInt", arg |-> 0 - 120],
    [op |-> "WriteNull", arg |-> 0],
    [op |-> "WriteBulk", arg |-> <<>>],
    [op |-> "WriteBulk", arg |-> <<"a", CR, LF, "b", "c", "d", "e", "f", "g", "h", "i">>],
    [op |-> "WriteBulkBytes", arg |-> <<LF>>],
    [op |-> "WriteArray", arg |-> 2],
    [op |-> "WriteArray", arg |-> 0 - 1] }

InitWriter ==
  /\ OneConn
  /\ sent = [c \in Conns |-> IF c = 1 THEN << <<<<"a">>>> >> ELSE <<>>]
  /\ wire = [c \in Conns |-> IF c = 1 THEN <<"a", LF>> ELSE <<>>]
  /\ input = wire
  /\ eof = [c \in Conns |-> FALSE]

NextWriter ==
  \/ EngineRead(1)
  \/ StreamRead(1)
  \/ HandlerWrite(1, WriterCalls, MaxWriterCalls)
  \/ HandlerHijack(1)
  \/ HijackedFlush(1)
  \/ HandlerReturn(1)

SpecWriter == InitWriter /\ [][NextWriter]_vars

(***************************************************************************)
(* The parser's specification: one connection whose handler writes         *)
(* nothing, fed inline lines of every shape, blank lines, RESP commands    *)
(* and inputs that stop in the middle of a command, in arbitrary chunks,   *)
(* the client closing its side or not                                      *)
(***************************************************************************)
\* the reference value of an escaped byte inside quotes
RefEscape(c) ==
  CASE c = "n" -> LF
    [] c = "r" -> CR
    [] c = "t" -> "\t"
    [] OTHER -> c

RECURSIVE RefQuoted(_, _, _)
\* the reference reading of a quoted token of s from index i (1-based), the
\* opening quote being s[1]: the value, and what follows the closing quote
RefQuoted(s, i, acc) ==
  IF i > Len(s) THEN [ok |-> FALSE, val |-> <<>>, rest |-> <<>>]
  ELSE IF s[i] = "\"" THEN [ok |-> TRUE, val |-> acc, rest |-> SubSeq(s, i + 1, Len(s))]
  ELSE IF s[i] = "\\" THEN
    IF i + 1 > Len(s) THEN [ok |-> FALSE, val |-> <<>>, rest |-> <<>>]
    ELSE RefQuoted(s, i + 2, Append(acc, RefEscape(s[i + 1])))
  ELSE RefQuoted(s, i + 1, Append(acc, s[i]))

RECURSIVE RefRun(_)
\* the length of the longest prefix of s without a space
RefRun(s) == IF s = <<>> \/ s[1] = " " THEN 0 ELSE 1 + RefRun(Tail(s))

RECURSIVE RefTokenize(_)
\* the reference tokenization of an inline line (end of line stripped):
\* [err, args], err standing for "unbalanced quotes"
RefTokenize(s) ==
  IF s = <<>> THEN [err |-> FALSE, args |-> <<>>]
  ELSE IF s[1] = " " THEN RefTokenize(Tail(s))
  ELSE IF s[1] = "\"" THEN
    LET q == RefQuoted(s, 2, <<>>) IN
    IF ~q.ok \/ (q.rest /= <<>> /\ q.rest[1] /= " ") THEN [err |-> TRUE, args |-> <<>>]
    ELSE LET t == RefTokenize(q.rest) IN
         IF t.err THEN t ELSE [err |-> FALSE, args |-> <<q.val>> \o t.args]
  ELSE
    LET k == RefRun(s)
        t == RefTokenize(SubSeq(s, k + 1, Len(s)))
    IN IF "\"" \in Range(SubSeq(s, 1, k)) THEN [err |-> TRUE, args |-> <<>>]
       ELSE IF t.err THEN t
       ELSE [err |-> FALSE, args |-> <<SubSeq(s, 1, k)>> \o t.args]

\* the commands the reference reads in the one line s: none on an error or
\* on a line without a token
RefCmds(s) ==
  IF RefTokenize(s).err \/ RefTokenize(s).args = <<>> THEN <<>>
  ELSE <<RefTokenize(s).args>>

\* bytes an inline line of the parser's specification is made of
InlineBytes == {"a", " ", "\"", "\\", "n"}

\* the length of an inline line, end of line not counted
MaxLineLen == 4

InlineLines == SeqsUpTo(InlineBytes, MaxLineLen)

\* the spec's own examples of inline lines
SpecLines ==
  { <<" ", " ", "f", "o", "o", " ", " ", " ", "b", "a", "r", " ", " ">>,
    <<"s", "e", "t", " ", "\"", "a", " ", "b", "\"", " ", "\"", "c", "\\", "n", "d", "\"">>,
    <<"\"", "a", "\"", "b">>,
    <<"s", "e", "t", " ", "\"", "a", " ", "b">>,
    <<"\"", "\\", "t", "\\", "r", "\\", "\"", "\"">>,
    <<"a", CR>> }

\* the line the spec reads in the bytes of one inline line: what precedes the
\* line feed, less one carriage return in front of it
RefLine(b) ==
  LET l == Slice(b, 0, Len(b) - 1) IN
  IF Len(l) > 0 /\ At(l, Len(l) - 1) = CR THEN Slice(l, 0, Len(l) - 1) ELSE l

\* one inline line and its end of line
LineInputs ==
  { [bytes |-> l \o e, cmds |-> RefCmds(RefLine(l \o e))] :
      l \in InlineLines \cup SpecLines, e \in {<<LF>>, <<CR, LF>>} }

\* inputs of several commands, with blank lines, inputs that stop in the
\* middle of a command, and inputs that go wrong after a first line
StreamInputs ==
  { [bytes |-> <<"a">>, cmds |-> <<>>],
    [bytes |-> <<"a", LF, "b">>, cmds |-> << <<<<"a">>>> >>],
    [bytes |-> <<LF, CR, LF, "a", LF, LF>>, cmds |-> << <<<<"a">>>> >>],
    [bytes |-> EncodeCmd(<< <<"a">>, <<>> >>), cmds |-> << << <<"a">>, <<>> >> >>],
    [bytes |-> EncodeCmd(<< <<"a">> >>) \o <<"b", LF>>, cmds |-> << <<<<"a">>>>, <<<<"b">>>> >>],
    [bytes |-> <<"*", "1", CR, LF>>, cmds |-> <<>>],
    [bytes |-> <<"*", "1", CR, LF, "$", "1", CR, LF, "a">>, cmds |-> <<>>],
    [bytes |-> <<"*", "2", CR, LF, "$", "1", CR, LF, "a", CR, LF>>, cmds |-> <<>>],
    [bytes |-> <<"a", LF>> \o EncodeCmd(<< <<"b", "c">> >>) \o <<"*">>, cmds |-> << <<<<"a">>>>, <<<<"b", "c">>>> >>],
    \* a command, and a blank line, in front of a line the parser refuses
    [bytes |-> <<"a", LF, "\"", LF>>, cmds |-> << <<<<"a">>>> >>],
    [bytes |-> <<LF, "\"", LF>>, cmds |-> <<>>] }

InitParse ==
  /\ OneConn
  /\ \E in \in LineInputs \cup StreamInputs :
       /\ sent = [c \in Conns |-> IF c = 1 THEN in.cmds ELSE <<>>]
       /\ wire = [c \in Conns |-> IF c = 1 THEN in.bytes ELSE <<>>]
       /\ input = wire
  /\ eof \in [Conns -> BOOLEAN]
  /\ \A c \in Conns : c /= 1 => ~eof[c]

NextParse ==
  \/ EngineRead(1)
  \/ StreamRead(1)
  \/ StreamEOF(1)
  \/ HandlerReturn(1)
  \/ WorkerExit(1)
  \/ Cleanup(1)
  \/ ObserverReturn(1)

SpecParse == InitParse /\ [][NextParse]_vars

\* A connection whose handler may hijack it: the handle's calls are made by
\* the handler or by whoever it gave the handle to, at any moment
HijackInputs ==
  { [bytes |-> <<"a", LF, "b", LF, "c", LF>>, cmds |-> << << <<"a">> >>, << <<"b">> >>, << <<"c">> >> >>],
    [bytes |-> <<"a", LF, "b", " ", "c", CR, LF, "d">>, cmds |-> << << <<"a">> >>, << <<"b">>, <<"c">> >> >>],
    [bytes |-> <<"a", LF, "\"", LF>>, cmds |-> << << <<"a">> >> >>] }

InitHijack ==
  /\ OneConn
  /\ \E in \in HijackInputs :
       /\ sent = [c \in Conns |-> IF c = 1 THEN in.cmds ELSE <<>>]
       /\ wire = [c \in Conns |-> IF c = 1 THEN in.bytes ELSE <<>>]
  /\ input = wire
  /\ eof \in [Conns -> BOOLEAN]
  /\ \A c \in Conns \ {1} : ~eof[c]

NextHijack ==
  \/ EngineRead(1)
  \/ StreamRead(1)
  \/ StreamEOF(1)
  \/ HandlerHijack(1)
  \/ HandlerReturn(1)
  \/ WorkerExit(1)
  \/ Cleanup(1)
  \/ ObserverReturn(1)
  \/ HjReadCommandBytes(1)
  \/ HjDecode(1)
  \/ HjStreamRead(1)
  \/ HjStreamEOF(1)
  \/ HjReadCommand(1)

SpecHijack == InitHijack /\ [][NextHijack]_vars

(***************************************************************************)
(* Properties                                                              *)
(***************************************************************************)
\* the worker has left the engine loop
LeftLoop(c) == wpc[c] \in {"exit", "cleanup", "observer", "blocked", "done"}

\* the reply the specification prescribes for the protocol error e
ErrReply(e) ==
  <<"-", "E", "R", "R", " ", "P", "r", "o", "t", "o", "c", "o", "l", " ",
    "e", "r", "r", "o", "r", ":", " ">> \o e.msg \o CRLF

\* the replies the latest handler invocation wrote
BatchReplies(c) == EncAll(SubSeq(wcalls[c], callsAtCall[c] + 1, Len(wcalls[c])))

\* C1: whatever the chunks the stream's reads deliver, the commands returned
\* by ReadCommands are, concatenated, a prefix of the well-formed RESP commands
\* sent, byte for byte and in wire order; no error other than the end of the
\* stream is ever reported; and once every byte has been delivered and decoded
\* (the reader waits for more, or has met the end of the stream) every command
\* has been returned exactly once.
C1_ReadCommandsReturnsAll ==
  /\ IsPrefix(Concat(delivered[1]), sent[1])
  /\ werr[1] \in {nil, EOF}
  /\ (wire[1] = <<>> /\ wpc[1] \in {"sysread", "exit"}) => Concat(delivered[1]) = sent[1]

\* two commands, one with an empty argument and one with a '\n' in it, came
\* back in two batches, through a buffer that had to be doubled
C1_Witness ==
  /\ Len(delivered[1]) = 2
  /\ Concat(delivered[1]) = sent[1]
  /\ sent[1] = << <<<<"a", CR, LF, "$">>, <<>>>>, <<<<LF>>>> >>
  /\ rd[1].len > BufLen
  /\ wpc[1] = "sysread"

\* C2: on one connection the batches passed to the handler list, concatenated,
\* the commands in the order their bytes arrived, none twice; and the bytes
\* written to the stream are the replies in the order the handler wrote them
\* (followed at most by the engine's own reply to a protocol error).
C2_OrderPreserved ==
  /\ IsPrefix(Concat(delivered[1]), sent[1])
  /\ IsPrefix(Concat(out[1]),
              EncAll(wcalls[1]) \o (IF werr[1].kind = "protocol" THEN ErrReply(werr[1]) ELSE <<>>))

\* two batches were delivered and answered by two different replies, both on the wire
C2_Witness ==
  /\ Len(delivered[1]) = 2
  /\ Concat(delivered[1]) = << <<<<"a">>>>, <<<<"b">>>> >>
  /\ Len(out[1]) = 2
  /\ wcalls[1] = << [op |-> "WriteBulk", arg |-> <<"v">>], [op |-> "WriteString", arg |-> <<"O", "K">>] >>
  /\ Concat(out[1]) = EncAll(wcalls[1])

C4_ProtocolError ==
  werr[1].kind = "protocol" =>
    /\ LeftLoop(1)
    /\ werr[1].msg \in {msgUnbalancedQuotes, msgInvalidBulkLength, msgInvalidMultiBulkLength}
                       \cup {msgExpected(c) : c \in {"x"}}
    /\ \/ Concat(out[1]) = EncAll(wcalls[1])
       \/ /\ Len(out[1]) > 0
          /\ out[1][Len(out[1])] = ErrReply(werr[1])
          /\ Concat(SubSeq(out[1], 1, Len(out[1]) - 1)) = EncAll(wcalls[1])
    /\ wpc[1] \in {"cleanup", "observer", "done"} => ~sopen[1]
    /\ wpc[1] \in {"observer", "done"} => obs[1] = <<werr[1]>>
    /\ wpc[1] \in {"exit", "cleanup"} => obs[1] = <<>>

\* after one command was handled and answered, unbalanced quotes ended the
\* connection: the error reply is the last write and the observer saw the error
C4_Witness ==
  /\ wpc[1] = "done"
  /\ werr[1] = errUnbalancedQuotes
  /\ Len(delivered[1]) = 1
  /\ Len(out[1]) = 2
  /\ out[1][2] = ErrReply(errUnbalancedQuotes)
  /\ obs[1] = <<errUnbalancedQuotes>>
  /\ ~sopen[1]

\* C5: the bytes handed to the stream, followed by those still buffered, are
\* the concatenation in call order of the tabulated encodings of the Write
\* calls made with no sticky error; no Flush hands the stream an empty write,
\* so a Flush after a successful Flush writes nothing.
C5_WriterEncodings ==
  /\ Concat(out[1]) \o wr[1].b = EncAll(wcalls[1])
  /\ \A i \in 1 .. Len(out[1]) : out[1][i] /= <<>>
  /\ (wr[1].err = nil /\ wpc[1] \in {"read", "sysread"}) => wr[1].b = <<>>

\* WriteString("OK") then a bulk string were flushed by the handler in one
\* write, and the engine's flush after the handler returned wrote nothing more
C5_Witness ==
  /\ wpc[1] = "exit"
  /\ werr[1] = errHijacked
  /\ Len(delivered[1]) = 1
  /\ selfio[1]
  /\ wr[1].err = nil
  /\ wcalls[1] = << [op |-> "WriteString", arg |-> <<"O", "K">>],
                   [op |-> "WriteBulk", arg |-> <<>>] >>
  /\ out[1] = << <<"+", "O", "K", CR, LF, "$", "0", CR, LF, CR, LF>> >>

\* C6: once the handler has called Close and the flush in it succeeded (the
\* sticky error is "closed"), every reply written before it is on the stream,
\* nothing written later is buffered or sent, the engine does not read again,
\* and it leaves the loop with no error, which is what the CloseObserver gets.
C6_HandlerClose ==
  wr[1].err = errClosed =>
    /\ Concat(out[1]) = EncAll(wcalls[1])
    /\ wr[1].b = <<>>
    /\ ~sopen[1]
    /\ wpc[1] = "handler" \/ LeftLoop(1)
    /\ nflush[1] = Len(delivered[1]) - 1
    /\ LeftLoop(1) => werr[1] = nil
    /\ wpc[1] \in {"observer", "done"} => obs[1] = <<nil>>

\* a handler wrote a reply, closed, wrote again in vain and returned: the
\* observer was called with no error
C6_Witness ==
  /\ wpc[1] = "done"
  /\ wr[1].err = errClosed
  /\ hops[1] = 2
  /\ Len(wcalls[1]) - callsAtCall[1] = 1
  /\ Len(out[1]) = 1
  /\ obs[1] = <<nil>>

\* C7: when the handler hijacked the connection and the loop ended as hijacked,
\* the engine leaves the stream open and the CloseObserver is called with no error.
C7_HijackObserverNoError ==
  (werr[1] = errHijacked /\ wpc[1] \in {"observer", "done"}) =>
    /\ sopen[1]
    /\ obs[1] = <<nil>>

(***************************************************************************)
(* The server's specification: ListenServeAndSignal from its first line,   *)
(* clients that each send one inline command, workers, and Server.Close    *)
(* called at any moment                                                    *)
(***************************************************************************)
\* what every client sends
SrvInput == [bytes |-> <<"a", LF>>, cmds |-> << << <<"a">> >> >>]

\* or, the first client, a line the parser refuses, an open quote, to which
\* the worker answers with an error reply longer than a fresh write buffer
SrvBadInput == [bytes |-> <<"\"", LF>>, cmds |-> <<>>]

\* the state NewServer leaves (lines 112-129): an empty registry and a read
\* pool of defaultPoolSize buffers of defaultBufLen bytes
Init ==
  /\ NoConn
  /\ mu = free
  /\ ln = FALSE
  /\ lnOpen = FALSE
  /\ done = FALSE
  /\ conns = {}
  /\ rdpool = [i \in 1 .. PoolSize |-> BufLen]
  /\ wrpool = <<>>
  /\ spc = "listen"
  /\ sret = Err("none")
  /\ signal = <<>>
  /\ accepted = 0
  /\ toclose = {}
  /\ closelog = <<>>
  /\ \E first \in {SrvInput, SrvBadInput} :
       /\ sent = [c \in Conns |-> IF c = 1 THEN first.cmds ELSE SrvInput.cmds]
       /\ wire = [c \in Conns |-> IF c = 1 THEN first.bytes ELSE SrvInput.bytes]
  /\ input = wire
  /\ eof = [c \in Conns |-> TRUE]

\* the steps of the accept loop's task
NextServer ==
  \/ Listen
  \/ Signal
  \/ SetLn
  \/ AcceptError
  \/ DeferLock
  \/ ServerReturn
  \/ \E c \in Conns :
       \/ Accept(c)
       \/ Register(c)
       \/ AcceptFilter(c)
       \/ Reject(c)
       \/ ServerCloseConn(c)

\* the steps of the workers, and of the streams under them
NextWorker ==
  \E c \in Conns :
    \/ EngineRead(c)
    \/ StreamRead(c)
    \/ StreamEOF(c)
    \/ StreamReadClosed(c)
    \/ HandlerReturn(c)
    \/ WorkerExit(c)
    \/ Cleanup(c)
    \/ ObserverReturn(c)

\* what the user's code may choose to do
NextUser ==
  \/ ServerClose
  \/ \E c \in Conns :
       \/ HandlerHijack(c)
       \/ ObserverServerClose(c)

Next == NextServer \/ NextWorker \/ NextUser

Spec == Init /\ [][Next]_vars

\* every task that can run does run: the scheduler is fair to the accept
\* loop's task and to each worker, a mutex that is released is eventually
\* acquired, every handler invocation returns, and a CloseObserver that
\* is not blocked returns
SpecLive ==
  /\ Spec
  /\ WF_vars(Listen) /\ WF_vars(Signal) /\ SF_vars(SetLn)
  /\ SF_vars(AcceptError) /\ SF_vars(DeferLock) /\ WF_vars(ServerReturn)
  /\ \A c \in Conns :
       /\ SF_vars(Register(c)) /\ WF_vars(AcceptFilter(c)) /\ SF_vars(Reject(c))
       /\ WF_vars(ServerCloseConn(c))
       /\ WF_vars(EngineRead(c)) /\ WF_vars(StreamRead(c))
       /\ WF_vars(StreamReadClosed(c)) /\ WF_vars(HandlerReturn(c))
       /\ WF_vars(WorkerExit(c)) /\ SF_vars(Cleanup(c)) /\ WF_vars(ObserverReturn(c))

(***************************************************************************)
(* Properties of the server                                                *)
(***************************************************************************)
\* the call of Server.Close that closed the listener while the accept loop
\* was running has been made
ClosedWhileServing == closelog /= <<>> /\ closelog[1].ret = nil

\* the connection's worker has been through handle's deferred function up to
\* the call of the CloseObserver
ObserverCalled(c) == wpc[c] \in {"observer", "blocked", "done"}

\* C8: after Server.Close is called on a serving server, ListenServeAndSignal
\* eventually returns nil, and every connection that was in the registry at
\* that call has its stream closed and, if it has a worker, its CloseObserver
\* invoked
C8_CloseStopsServer ==
  ClosedWhileServing ~>
    /\ ClosedWhileServing
    /\ spc = "returned"
    /\ sret = nil
    /\ \A c \in closelog[1].reg :
         /\ ~sopen[c]
         /\ nworkers[c] = 1 => Len(obs[c]) = 1

\* C9: a call of Server.Close made after nil was published on the signal
\* channel does not fail with "not serving": it marks the server as done
C9_CloseAfterSignal ==
  closelog /= <<>> => closelog[1].ret /= errNotServing /\ done

\* C10: a connection the AcceptFilter refused is out of the registry with its
\* stream closed, and never has a worker, a handler invocation or a
\* CloseObserver call; a connection it let through has exactly one worker,
\* and its CloseObserver is called exactly once, when that worker exits
C10_AcceptFilter ==
  \A c \in Conns :
    /\ nworkers[c] <= 1
    /\ wpc[c] = "rejected" => c \notin conns /\ ~sopen[c]
    /\ nworkers[c] = 0 <=> wpc[c] \in {"new", "accepted", "filter", "rejected"}
    /\ nworkers[c] = 0 => delivered[c] = <<>> /\ obs[c] = <<>>
    /\ nworkers[c] = 1 => Len(obs[c]) = IF ObserverCalled(c) THEN 1 ELSE 0

\* the first connection was refused by the AcceptFilter, the second was let
\* through and its worker has finished
C10_Witness ==
  /\ wpc[1] = "rejected"
  /\ wpc[2] = "done"
  /\ Len(obs[2]) = 1

(***************************************************************************)
(* Properties of the parser                                                *)
(***************************************************************************)
\* the bytes the reader holds and has not consumed: buf[start:end]
Unconsumed(c) == Slice(rd[c].buf, rd[c].start, rd[c].end)

\* C11: when the stream ends while the reader holds no unconsumed byte,
\* ReadCommands returns io.EOF and the CloseObserver is called with no error;
\* when it ends while the reader holds a byte of an incomplete command,
\* ReadCommands returns io.ErrUnexpectedEOF and the CloseObserver gets it.
C11_EOF ==
  (LeftLoop(1) /\ werr[1].kind /= "protocol") =>
    /\ Unconsumed(1) = <<>> =>
         /\ werr[1] = IF wpc[1] \in {"exit", "cleanup"} THEN EOF ELSE nil
         /\ ObserverCalled(1) => obs[1] = <<nil>>
    /\ Unconsumed(1) /= <<>> =>
         /\ werr[1] = ErrUnexpectedEOF
         /\ ObserverCalled(1) => obs[1] = <<ErrUnexpectedEOF>>

\* the client sent a command and one byte of the next and closed: the
\* command was delivered and the observer got io.ErrUnexpectedEOF
C11_Witness ==
  /\ input[1] = <<"a", LF, "b">>
  /\ wpc[1] = "done"
  /\ Concat(delivered[1]) = << <<<<"a">>>> >>
  /\ Unconsumed(1) = <<"b">>
  /\ obs[1] = <<ErrUnexpectedEOF>>

\* C12: every batch ReadCommands returns without error holds at least one
\* command and every command at least one argument; blank inline lines are
\* dropped, so that the batches list the commands of the input and nothing else.
C12_NonEmptyBatches ==
  /\ \A i \in DOMAIN delivered[1] :
       /\ delivered[1][i] /= <<>>
       /\ \A j \in DOMAIN delivered[1][i] : delivered[1][i][j] /= <<>>
  /\ IsPrefix(Concat(delivered[1]), sent[1])
  /\ wpc[1] = "handler" => delivered[1] /= <<>>

\* three blank lines stood around one command: the command was returned
\* alone, and the reader, everything consumed, waits for more
C12_Witness ==
  /\ input[1] = <<LF, CR, LF, "a", LF, LF>>
  /\ wire[1] = <<>>
  /\ wpc[1] = "sysread"
  /\ Unconsumed(1) = <<>>
  /\ Concat(delivered[1]) = << <<<<"a">>>> >>

\* the inputs of one inline line
OneLine == {x.bytes : x \in LineInputs}

\* C13: once an inline line is parsed, its arguments are those of the
\* reference tokenization of the line, and the worker holds the error
\* "unbalanced quotes" exactly when the reference finds a quote opening inside
\* a token, a closing quote not followed by a space or the end of the line, or
\* a quote left open.
C13_InlineTokens ==
  (input[1] \in OneLine /\ wire[1] = <<>> /\ wpc[1] /= "read") =>
    LET t == RefTokenize(RefLine(input[1])) IN
    /\ t.err <=> werr[1] = errUnbalancedQuotes
    /\ t.err => delivered[1] = <<>>
    /\ ~t.err => /\ werr[1].kind /= "protocol"
                 /\ Concat(delivered[1]) =
                      IF t.args = <<>> THEN <<>> ELSE << t.args >>

\* the line  set "a b" "c\nd"  with its CR LF was parsed into three
\* arguments, the last with a line feed in it
C13_Witness ==
  /\ input[1] = <<"s", "e", "t", " ", "\"", "a", " ", "b", "\"", " ",
                  "\"", "c", "\\", "n", "d", "\"", CR, LF>>
  /\ wire[1] = <<>>
  /\ wpc[1] = "handler"
  /\ delivered[1] = << << << <<"s", "e", "t">>, <<"a", " ", "b">>, <<"c", LF, "d">> >> >> >>

(***************************************************************************)
(* Properties of the pools and of the registry                             *)
(***************************************************************************)
\* C14: each pool holds at most defaultPoolSize buffers, and no buffer in a
\* pool is longer (read) or of greater capacity (write) than defaultBufLen.
C14_PoolBounds ==
  /\ Len(rdpool) <= PoolSize
  /\ Len(wrpool) <= PoolSize
  /\ \A i \in DOMAIN rdpool : rdpool[i] <= BufLen
  /\ \A i \in DOMAIN wrpool : wrpool[i] <= BufLen

\* two connections are closed and cleaned up: the write buffer of the first
\* grew under an error reply and was kept out of the pool, the second's
\* filled the pool
C14_Witness ==
  /\ wpc[1] = "done" /\ wpc[2] = "done"
  /\ werr[1] = errUnbalancedQuotes
  /\ wr[1].cap > BufLen
  /\ wrpool = <<WrCap>>
  /\ Len(wrpool) = PoolSize

\* the worker of c is inside the loop of handle (lines 291-337)
LoopRuns(c) == nworkers[c] = 1 /\ wpc[c] \in {"read", "sysread", "handler"}

\* the worker of c was started and has not yet run the delete of line 273
BeforeCleanup(c) ==
  nworkers[c] = 1 /\ wpc[c] \in {"read", "sysread", "handler", "exit", "cleanup"}

\* C15: a connection is in the registry only between the start of its worker
\* and the worker's cleanup and only while it is not hijacked, and it is in
\* the registry whenever its loop runs and it is not hijacked, the accept
\* loop having exited or not.
C15_RegistryIffLoop ==
  \A c \in Conns :
    /\ c \in conns => BeforeCleanup(c) /\ ~hj[c]
    /\ (LoopRuns(c) /\ ~hj[c]) => c \in conns

(***************************************************************************)
(* Properties of the lock and of the tasks                                 *)
(***************************************************************************)
\* C16: no task holds the server's lock while it reads, writes, flushes or
\* closes a stream or while it runs the handler, the AcceptFilter or the
\* CloseObserver, and no callback that calls Server.Close is left waiting
\* for the lock.
C16_NoLockAcrossIO ==
  /\ \A c \in Conns :
       /\ wpc[c] \in {"sysread", "handler", "exit", "observer", "blocked"}
            => mu /= <<"worker", c>>
       /\ (wpc[c] = "filter" /\ spc = "filter") => mu /= <<"accept">>
       /\ wpc[c] /= "blocked"
  /\ (spc = "closing" /\ toclose /= {}) => mu /= <<"accept">>

\* a step of the accept loop's task: every one of them moves spc or toclose
AcceptTaskStep == spc' /= spc \/ toclose' /= toclose

\* C17: while the worker of a connection that is not hijacked is in its
\* loop, no step of the accept loop's task changes the connection's writer
\* or its parser.
C17_OwnWorkerOnly ==
  [][\A c \in Conns :
       (LoopRuns(c) /\ ~hj[c] /\ (wr'[c] /= wr[c] \/ rd'[c] /= rd[c]))
         => ~AcceptTaskStep]_vars

\* C18: when the worker of a connection that is not hijacked ends its
\* cleanup and a pool has room, the connection's buffer is appended to that
\* pool exactly when its length (read) or capacity (write) is not above
\* defaultBufLen.
C18_ReturnIffWithinCap ==
  [][\A c \in Conns :
       (wpc[c] = "observer" /\ wpc'[c] = "done" /\ werr[c] /= errHijacked) =>
         /\ Len(rdpool) < PoolSize =>
              (rdpool' = Append(rdpool, rd[c].len) <=> rd[c].len <= BufLen)
         /\ Len(wrpool) < PoolSize =>
              (wrpool' = Append(wrpool, wr[c].cap) <=> wr[c].cap <= BufLen)]_vars

(***************************************************************************)
(* Properties of the hijacked handle                                       *)
(***************************************************************************)
\* the commands the calls on the handle of c returned, in call order
HjCommands(c) ==
  LET ok == SelectSeq(hjc[c].got, LAMBDA x : x.err = nil)
  IN [i \in DOMAIN ok |-> ok[i].cmd]

\* C19: no call of ReadCommand or ReadCommandBytes on a hijacked handle
\* recurses without end, and the commands the handler received, those the
\* handle returned and those it still buffers are, in this order, the
\* commands of the wire.
C19_HijackedReadsReturn ==
  /\ hjc[1].pc /= "recursing"
  /\ IsPrefix(Concat(delivered[1]) \o HjCommands(1) \o hjc[1].cmds, sent[1])

(***************************************************************************)
(* Properties of the parser's cursors                                      *)
(***************************************************************************)
\* the bytes of connection c that the stream's Read has returned so far
Received(c) == SubSeq(input[c], 1, Len(input[c]) - Len(wire[c]))

\* the bytes p are complete commands and blank lines, and nothing more
WholeCommands(p) ==
  p = <<>> \/ (parseNext(p, <<>>).err = nil /\ parseNext(p, <<>>).b = <<>>)

\* the commands the bytes p hold
CommandsOf(p) == IF p = <<>> THEN <<>> ELSE parseNext(p, <<>>).cmds

\* the bytes u begin with a complete command or a blank line
StartsWithCommand(u) == \E k \in 1 .. Len(u) : WholeCommands(SubSeq(u, 1, k))

\* the worker of c is not inside ReadCommands: its last call has returned
AfterCall(c) == wpc[c] \in {"handler", "exit", "cleanup", "observer", "done"}

\* C20: after a call of ReadCommands, with commands or with an error, the
\* cursors are ordered within the buffer, are both 0 when nothing is left
\* unconsumed, and the bytes in [start, end) are the received bytes that
\* follow the last command returned or dropped: what precedes them is whole
\* commands, those delivered, and they do not begin with another one.
C20_Cursors ==
  AfterCall(1) =>
    LET u == Unconsumed(1)
        R == Received(1)
        P == SubSeq(R, 1, Len(R) - Len(u))
    IN /\ 0 <= rd[1].start /\ rd[1].start <= rd[1].end /\ rd[1].end <= rd[1].len
       /\ rd[1].start = rd[1].end => rd[1].end = 0
       /\ Len(u) <= Len(R)
       /\ R = P \o u
       /\ WholeCommands(P)
       /\ CommandsOf(P) = Concat(delivered[1])
       /\ ~StartsWithCommand(u)

\* the bytes u begin with complete commands, not only blank lines
StartsWithCommands(u) ==
  \E k \in 1 .. Len(u) :
    WholeCommands(SubSeq(u, 1, k)) /\ CommandsOf(SubSeq(u, 1, k)) /= <<>>

\* C21: a call of ReadCommands on buffered bytes that begin with complete
\* commands and then violate the framing returns the protocol error alone:
\* no batch reaches the handler, the cursors stay where they were, the
\* worker leaves its loop with the error, and the error reply is all that is
\* written.
C21_DecodedThenDiscarded ==
  [][(/\ wpc[1] = "read"
      /\ StartsWithCommands(Unconsumed(1))
      /\ parseNext(Unconsumed(1), <<>>).err /= nil)
       => /\ delivered'[1] = delivered[1]
          /\ werr'[1] = parseNext(Unconsumed(1), <<>>).err
          /\ werr'[1].kind = "protocol"
          /\ wpc'[1] = "exit"
          /\ rd'[1] = rd[1]
          /\ out'[1] \in {out[1], Append(out[1], ErrReply(werr'[1]))}]_vars

\* the command a and an open quote arrived in one read: the handler was
\* never called, the client got the error reply alone, and the connection
\* is closed with the command's bytes still in the buffer
C21_Witness ==
  /\ input[1] = <<"a", LF, "\"", LF>>
  /\ wpc[1] = "done"
  /\ delivered[1] = <<>>
  /\ sent[1] = << << <<"a">> >> >>
  /\ Unconsumed(1) = <<"a", LF, "\"", LF>>
  /\ obs[1] = <<errUnbalancedQuotes>>
  /\ out[1] = <<ErrReply(errUnbalancedQuotes)>>
=============================================================================
